---- MODULE Spec2Model ----
(***************************************************************************)
(* The dynamic widget execution engine of LRGEX-HUB.                       *)
(*                                                                         *)
(* Part I  : the in-process engine (Shadow-DOM revision of                 *)
(*           CustomCodeWidget): WidgetErrorBoundary, InnerCustomCodeWidget *)
(*           with its useMemo compile step and render guard, ShadowWrapper *)
(*           and the resize-driven wrapper.                                *)
(* Part II : the iframe-hosted engine (components/widgets/                 *)
(*           CustomCodeWidget.tsx): parent component, postMessage channels *)
(*           and the WidgetRunner / ErrorBoundary inside the iframe.       *)
(***************************************************************************)
EXTENDS Integers, Sequences, FiniteSets, TLC

(***************************************************************************)
(* Bounds of the model.                                                    *)
(***************************************************************************)
\* The clock (Date.now(), in ms) is not advanced past MaxTime.
MaxTime == 1300
\* The resize observer reports widths 0..MaxWidth and heights 0..MaxHeight.
MaxWidth == 1
MaxHeight == 1
\* Number of host events in a run of the two-widget dashboard (SpecSiblings).
MaxSiblingSteps == 7
\* Host events in a run that follows the callbacks of one in-process widget.
MaxHostSteps == 6
\* Calls of props.setCustomData in such a run.
MaxSaves == 4
\* Headers in the headers object a caller passes to proxyFetch.
MaxCallerHeaders == 2
\* Host events in a run of the iframe-hosted engine.
MaxIframeSteps == 3
\* Invocations of one compiled factory in the iframe that a run follows.
MaxIframeCalls == 172
MaxFetchCalls == 2
MaxFramePosts == 1
MaxAppSteps == 4
MaxPosts == 2

(***************************************************************************)
(* Program constants.                                                      *)
(***************************************************************************)
\* if (renderCount.current > 170) throw ...
RenderLimit == 170
\* if (now - lastRenderTime.current > 1000) ...
WindowMs == 1000

\* Amounts by which the clock advances between two steps of the program: a
\* step inside the current 1-second window, a step to its very end and a
\* step past its end.
TickSteps == {600, 1000, 1001}

Inst == {1, 2}
Widths == 0..MaxWidth
Heights == 0..MaxHeight
\* customData blobs the host may hold for a widget (JSON text).
DataValues == {"{}", "{a:1}"}

(***************************************************************************)
(* WidgetSource values: the texts handed to `new Function(..., code)`.     *)
(***************************************************************************)
SrcEmpty == ""
SrcBlank == "  "
SrcHello == "return 'hello'"
SrcBoom == "throw new Error('boom')"
SrcOops == "throw 'oops'"
SrcNull == "throw null"
SrcUndef == "throw undefined"
SrcLate == "useEffect(() => { throw new Error('late') }, []); return 'x'"
SrcLoop == "const [n, setN] = useState(0); useEffect(() => setN(n + 1)); return n"
SrcSyntax == "return ;;; garbage("
SrcSave == "return h('button', {onClick: () => props.setCustomData({b: 2})})"
SrcFetch ==
    "return h('button', {onClick: async () => { await proxyFetch(url) }})"
SrcFetchCaught ==
    "return h('button', {onClick: () => proxyFetch(url).catch(() => {})})"
SrcSaveTwice ==
    "return h('button', {onClick: () => { props.setCustomData({a: 1}); props.setCustomData({b: 2}) }})"
Sources ==
    {SrcEmpty, SrcBlank, SrcHello, SrcBoom, SrcOops, SrcNull, SrcUndef,
     SrcLate, SrcLoop, SrcSyntax}

\* No memoized value: the component that owns the useMemo is not mounted.
NoMemo == "<none>"

\* JavaScript values that can be thrown: [t: type, v: message or string value].
NoValue == [t |-> "none", v |-> ""]
JsError(m) == [t |-> "Error", v |-> m]
JsString(s) == [t |-> "string", v |-> s]
JsNull == [t |-> "null", v |-> ""]
JsUndefined == [t |-> "undefined", v |-> ""]

LoopMessage ==
    "Infinite Render Loop Detected: The widget is updating its state too frequently."
SyntaxMessage == "Unexpected token ';'"

\* String.prototype.trim on the source texts of the model.
trim(s) == IF s = SrcBlank THEN "" ELSE s

\* What running the function body `c` does: the value it throws (or none),
\* and what its passive effect does after a committed render.
\*   effect = "setState": an effect without dependency list that updates the
\*                        component's own state after every render;
\*   effect = "throw"   : a mount effect that throws effectValue.
Invoke(c) ==
    CASE c = SrcBoom  -> [throws |-> TRUE, value |-> JsError("boom"),
                          effect |-> "none", effectValue |-> NoValue]
      [] c = SrcOops  -> [throws |-> TRUE, value |-> JsString("oops"),
                          effect |-> "none", effectValue |-> NoValue]
      [] c = SrcNull  -> [throws |-> TRUE, value |-> JsNull,
                          effect |-> "none", effectValue |-> NoValue]
      [] c = SrcUndef -> [throws |-> TRUE, value |-> JsUndefined,
                          effect |-> "none", effectValue |-> NoValue]
      [] c = SrcLate  -> [throws |-> FALSE, value |-> NoValue,
                          effect |-> "throw", effectValue |-> JsError("late")]
      [] c = SrcLoop  -> [throws |-> FALSE, value |-> NoValue,
                          effect |-> "setState", effectValue |-> NoValue]
      [] OTHER        -> [throws |-> FALSE, value |-> NoValue,
                          effect |-> "none", effectValue |-> NoValue]

(***************************************************************************)
(* State.                                                                  *)
(***************************************************************************)
VARIABLES
    widgets,    \* in-process engine: the widget instances on the dashboard
    palette,    \* the source texts the host may supply in this run
    now,        \* Date.now()
    w,          \* in-process engine: per-instance component state
    obs,        \* observer of instance 1's guard invocations (history)
    budget,     \* host events left in this run (-1: not limited)
    parent,     \* iframe engine: the parent component's props and state
    iframe,     \* iframe engine: the document inside the iframe
    frames,     \* iframe engine: several widgets and their message traffic
    app,        \* App: the dashboard store, its load and its auto-save
    toIframe,   \* messages posted to the iframe's window, oldest first
    toParent,   \* messages posted by the iframe to the parent window
    calls,      \* the callback props' invocations received by the host
    proxy       \* one request travelling through POST /api/proxy

engineVars == <<widgets, palette, now, w, obs, budget>>
iframeVars == <<parent, iframe, toIframe, toParent, frames>>
bridgeVars == <<calls, proxy, app>>
vars == <<widgets, palette, now, w, obs, budget, parent, iframe, toIframe, toParent,
          frames, calls, proxy, app>>

Props(wd, ht, d) == [width |-> wd, height |-> ht, customData |-> d]

Msg(type, c, pr, e) == [type |-> type, code |-> c, props |-> pr, error |-> e]

\* CustomCodeWidget (parent): the props code and customData, and the state
\* isReady, crashError (null is "") and dimensions.  History: afterCrash
\* (the host supplied a different code after the iframe's boundary caught a
\* render crash and its REPORT_ERROR was received).
NewParent(c) ==
    [code |-> c, customData |-> "{}", isReady |-> FALSE, crashError |-> "",
     dimensions |-> [width |-> 0, height |-> 0], afterCrash |-> FALSE]

ParentProps(x) == Props(x.dimensions.width, x.dimensions.height, x.customData)

\* The iframe document before its module script ran.  Fields: booted (the
\* script ran), runner (WidgetRunner is mounted and its message handler is
\* registered), code / props / compileError (WidgetRunner's state),
\* memoCode and generated (the dependency and the value of the compile
\* useMemo), mounted and pending (the generated component), hasError and
\* error (ErrorBoundary's state).  History: calls (invocations of the
\* current compiled factory), errSrc (the source whose exception the
\* boundary holds).
NewIframe ==
    [booted |-> FALSE, runner |-> FALSE,
     code |-> "", props |-> Props(0, 0, "{}"), compileError |-> "",
     memoCode |-> "", generated |-> FALSE, mounted |-> FALSE,
     pending |-> FALSE, hasError |-> FALSE, error |-> NoValue,
     calls |-> 0, errSrc |-> ""]

\* The host has received no callback yet.  onReportError: the calls
\* onReportError(message) / onReportError(message, code), oldest first;
\* onSetCustomData: the values received, oldest first.  History:
\* setCustomData (the values generated code passed to props.setCustomData).
\* History:
\* settled (how the last proxyFetch promise of generated code settled; kind
\* is "none" before the first).
NoSettlement ==
    [kind |-> "none", reply |-> "", message |-> "", caught |-> FALSE]
NoCalls ==
    [onReportError |-> <<>>, onSetCustomData |-> <<>>, setCustomData |-> <<>>,
     settled |-> NoSettlement]

\* No request is travelling through the proxy.
ProxyIdle == [stage |-> "idle"]

\* The dashboard store takes no part.
AppIdle == [stage |-> "idle"]

\* Neither callbacks nor the proxy took part so far.
BridgeIdle ==
    /\ calls = NoCalls
    /\ proxy = ProxyIdle
    /\ app = AppIdle

\* The dashboard shows no second iframe-hosted widget.
FramesIdle == [stage |-> "idle"]

\* No iframe-hosted widget is on the dashboard.
IframeIdle ==
    /\ parent = NewParent(SrcEmpty)
    /\ iframe = NewIframe
    /\ toIframe = <<>>
    /\ toParent = <<>>
    /\ frames = FramesIdle

(***************************************************************************)
(* Part I: the in-process engine.                                          *)
(***************************************************************************)

\* Error.prototype.toString / String.prototype.toString of a thrown value;
\* null and undefined have no toString: evaluating error.toString() throws.
ToStringThrows(error) == error.t \in {"null", "undefined"}
toString(error) ==
    CASE error.t = "Error"  -> IF error.v = "" THEN "Error" ELSE "Error: " \o error.v
      [] error.t = "string" -> error.v
      [] OTHER              -> "TypeError: Cannot read properties of " \o error.t

\* static getDerivedStateFromError(error)
getDerivedStateFromError(error) ==
    [hasError |-> TRUE, errorMsg |-> toString(error)]

\* Compile without the failure of new Function: every non-empty text yields
\* a callable.
C12CompileAcceptsAnyText(c) ==
    IF c = "" \/ trim(c) = "" THEN [kind |-> "empty", message |-> ""]
    ELSE [kind |-> "factory", message |-> ""]

\* The useMemo body up to the construction of the callable.
Compile(c) ==
    IF c = "" \/ trim(c) = "" THEN [kind |-> "empty", message |-> ""]
    ELSE IF c = SrcSyntax THEN [kind |-> "compileError", message |-> SyntaxMessage]
    ELSE [kind |-> "factory", message |-> ""]

\* GuardStep with the threshold of an earlier revision (5000), which a loop
\* does not reach within one window.
C4GuardStepLimit5000(r, t) ==
    LET n == r.renderCount + 1 IN
    IF t - r.lastRenderTime > WindowMs
    THEN [renderCount |-> 1, lastRenderTime |-> t, raised |-> FALSE]
    ELSE [renderCount |-> n, lastRenderTime |-> r.lastRenderTime,
          raised |-> n > 5000]

\* GuardStep that restarts the window but keeps counting (a cumulative counter).
C5GuardStepNoReset(r, t) ==
    LET n == r.renderCount + 1 IN
    IF t - r.lastRenderTime > WindowMs
    THEN [renderCount |-> n, lastRenderTime |-> t, raised |-> FALSE]
    ELSE [renderCount |-> n, lastRenderTime |-> r.lastRenderTime,
          raised |-> n > RenderLimit]

\* GuardStep that also restarts the window when exactly 1000 ms have passed.
C24GuardStepResetsAtWindow(r, t) ==
    LET n == r.renderCount + 1 IN
    IF t - r.lastRenderTime >= WindowMs
    THEN [renderCount |-> 1, lastRenderTime |-> t, raised |-> FALSE]
    ELSE [renderCount |-> n, lastRenderTime |-> r.lastRenderTime,
          raised |-> n > RenderLimit]

\* The render guard on the refs r = [renderCount, lastRenderTime] at time t.
GuardStep(r, t) ==
    LET n == r.renderCount + 1 IN
    IF t - r.lastRenderTime > WindowMs
    THEN [renderCount |-> 1, lastRenderTime |-> t, raised |-> FALSE]
    ELSE [renderCount |-> n, lastRenderTime |-> r.lastRenderTime,
          raised |-> n > RenderLimit]

\* A widget instance before its container has reported a size.
\* Fields: props (code, customData), CustomCodeWidget state (dimensions),
\* ShadowWrapper state (shadowRoot), WidgetErrorBoundary state (hasError,
\* errorMsg), the refs of the mounted generated component (genMounted,
\* renderCount, lastRenderTime), scheduled work (pending: "none", "self" = a
\* state update made by generated code, "sync" = the re-render queued by
\* componentDidUpdate's setState), and whether an exception left the boundary
\* uncaught (escaped).  History fields: thrown/phase (the last exception the
\* current source raised and where), errSrc (the source whose exception
\* errorMsg records), latch (the errorMsg recorded for the current source),
\* cleared (the errorMsg a pending reset has just cleared), loopAt (when the
\* guard raised for the current source, -1 if it did not).
\* memoCode is the code dependency the compile useMemo last ran with (NoMemo
\* while InnerCustomCodeWidget is not mounted).  History: ran (the source
\* the factory of the last invocation was compiled from), retried (the
\* current source was invoked again after it had thrown).
NewWidget(c, d) ==
    [code |-> c, customData |-> d,
     dimensions |-> [width |-> 0, height |-> 0],
     shadowRoot |-> FALSE,
     hasError |-> FALSE, errorMsg |-> "",
     genMounted |-> FALSE, renderCount |-> 0, lastRenderTime |-> 0,
     pending |-> "none", escaped |-> FALSE,
     thrown |-> NoValue, phase |-> "none", errSrc |-> "", latch |-> "",
     cleared |-> "", loopAt |-> -1,
     memoCode |-> NoMemo, ran |-> NoMemo, retried |-> FALSE]

\* {dimensions.width > 0 && <ShadowWrapper>...}, {shadowRoot && createPortal(...)}
BoundaryMounted(x) == x.dimensions.width > 0 /\ x.shadowRoot

\* The generated component is unmounted: its refs are gone.
DropGenerated(x) ==
    [x EXCEPT !.genMounted = FALSE, !.renderCount = 0, !.lastRenderTime = 0,
              !.pending = "none"]

\* The boundary (and everything below it) is unmounted: its state is gone.
Unmount(x) ==
    [DropGenerated(x) EXCEPT !.shadowRoot = FALSE, !.hasError = FALSE,
                             !.errorMsg = "", !.errSrc = "", !.cleared = "",
                             !.memoCode = NoMemo]

\* An exception `error` raised in `phase` reaches WidgetErrorBoundary.
Catch(x, error, ph, t) ==
    LET y == [x EXCEPT !.thrown = error, !.phase = ph,
                       !.loopAt = IF ph = "guard" THEN t ELSE x.loopAt]
    IN IF ToStringThrows(error)
       THEN [Unmount(y) EXCEPT !.escaped = TRUE]
       ELSE LET s == getDerivedStateFromError(error) IN
            [DropGenerated(y) EXCEPT !.hasError = s.hasError,
                                     !.errorMsg = s.errorMsg,
                                     !.errSrc = x.code,
                                     !.latch = s.errorMsg,
                                     !.memoCode = NoMemo]

\* One invocation of the wrapper component returned by useMemo, followed by
\* the generated code's effects when the render committed.
GeneratedComponent(x, fresh, t) ==
    LET r0 == IF fresh \/ ~x.genMounted
              THEN [renderCount |-> 0, lastRenderTime |-> t]
              ELSE [renderCount |-> x.renderCount,
                    lastRenderTime |-> x.lastRenderTime]
        g == GuardStep(r0, t)
        out == Invoke(x.memoCode)
        y == [x EXCEPT !.genMounted = TRUE, !.renderCount = g.renderCount,
                       !.lastRenderTime = g.lastRenderTime, !.pending = "none",
                       !.ran = x.memoCode,
                       !.retried = x.retried \/ x.phase \in {"guard", "render", "effect"}]
    IN IF g.raised THEN Catch(y, JsError(LoopMessage), "guard", t)
       ELSE IF out.throws THEN Catch(y, out.value, "render", t)
       ELSE IF out.effect = "throw" /\ (fresh \/ ~x.genMounted)
            THEN Catch(y, out.effectValue, "effect", t)
       ELSE IF out.effect = "setState" THEN [y EXCEPT !.pending = "self"]
       ELSE y

\* InnerCustomCodeWidget: compile (memoized on the code), then render.
InnerCustomCodeWidget(x, fresh, t) ==
    LET recompile == fresh \/ x.memoCode = NoMemo \/ x.memoCode # x.code
        m == [x EXCEPT !.memoCode = IF recompile THEN x.code ELSE x.memoCode]
        comp == Compile(m.memoCode)
    IN
    CASE comp.kind = "empty" -> DropGenerated(m)
      [] comp.kind = "compileError" ->
            [DropGenerated(m) EXCEPT
                !.thrown = [t |-> "SyntaxError", v |-> comp.message],
                !.phase = "compile"]
      [] OTHER -> GeneratedComponent(m, fresh \/ recompile, t)

\* componentDidUpdate without the codeHash comparison: it never resets.
C3ComponentDidUpdateNoReset(x, prevHash) == x

\* componentDidUpdate(prevProps)
componentDidUpdate(x, prevHash) ==
    IF ~x.escaped /\ prevHash # x.code
    THEN [x EXCEPT !.hasError = FALSE, !.errorMsg = "", !.errSrc = "",
                   !.pending = "sync", !.cleared = x.errorMsg, !.latch = ""]
    ELSE x

\* A boundary whose render() returns its children even while hasError is set.
C22RenderBoundaryIgnoresError(x, prevHash, fresh, t) ==
    componentDidUpdate(InnerCustomCodeWidget(x, fresh, t), prevHash)

\* WidgetErrorBoundary.render() of an already mounted boundary, then the
\* commit's componentDidUpdate.
RenderBoundary(x, prevHash, fresh, t) ==
    LET r == IF x.hasError THEN x ELSE InnerCustomCodeWidget(x, fresh, t)
    IN componentDidUpdate(r, prevHash)

\* What the widget shows.
View(x) ==
    IF x.escaped \/ ~BoundaryMounted(x) THEN "none"
    ELSE IF x.hasError THEN "crashed"
    ELSE IF Compile(x.code).kind = "empty" THEN "empty"
    ELSE IF Compile(x.code).kind = "compileError" THEN "compileError"
    ELSE IF x.genMounted THEN "output" ELSE "none"

\* The dashboard's React root is still mounted: no exception went uncaught.
HostUp == \A i \in Inst : ~w[i].escaped
\* React flushes the re-render queued in componentDidUpdate before it handles
\* another event.
NoSync == \A i \in Inst : w[i].pending # "sync"

\* Whether rendering instance state x (props already updated) runs the guard.
Invokes(x) ==
    BoundaryMounted(x) /\ ~x.hasError /\ Compile(x.code).kind = "factory"

\* The observer of instance 1's guard invocations (history only; it is off
\* unless a specification switches it on).
\*   lastAt, spaced : time of the last invocation; whether every two
\*                    consecutive invocations were at least 100 ms apart;
\*   on, start, prev: a span was marked when the clock moved from prev to
\*                    start (no invocation happened between the two);
\*   count          : the invocations made in [start, start + 1000];
\*   aligned        : the first invocation counted started a RenderWindow
\*                    (a mount, or a reset of the window).
ObsOff ==
    [tracking |-> FALSE, lastAt |-> 0, spaced |-> TRUE,
     on |-> FALSE, start |-> 0, prev |-> 0, count |-> 0, aligned |-> FALSE]

Observe(i, x, fresh, t) ==
    IF ~(obs.tracking /\ i = 1 /\ Invokes(x)) THEN obs
    ELSE LET o == [obs EXCEPT !.lastAt = t,
                              !.spaced = obs.spaced /\ t - obs.lastAt >= 100]
         IN IF obs.on /\ t - obs.start <= WindowMs
            THEN [o EXCEPT !.count = obs.count + 1,
                           !.aligned = IF obs.count = 0
                                       THEN fresh \/ ~x.genMounted
                                            \/ t - x.lastRenderTime > WindowMs
                                       ELSE obs.aligned]
            ELSE o

\* Install instance i's new state; an uncaught exception unmounts the whole
\* React root, every other widget included.
Apply(i, x) ==
    w' = IF x.escaped
         THEN [j \in Inst |-> IF j = i THEN x ELSE Unmount(w[j])]
         ELSE [w EXCEPT ![i] = x]

Spend == budget # 0 /\ budget' = (IF budget > 0 THEN budget - 1 ELSE budget)

\* The clock advances.
Tick(d) ==
    /\ now + d <= MaxTime
    /\ now' = now + d
    /\ UNCHANGED <<iframeVars, bridgeVars, widgets, palette, w, obs, budget>>

\* ResizeObserver callback: setDimensions({width, height}) and the re-render
\* of CustomCodeWidget it causes.
Resize(i, wd, ht) ==
    /\ HostUp /\ NoSync /\ i \in widgets /\ Spend
    /\ LET x == [w[i] EXCEPT !.dimensions = [width |-> wd, height |-> ht]] IN
       /\ Apply(i, IF wd = 0 THEN Unmount(x)
                   ELSE IF ~x.shadowRoot THEN x
                   ELSE RenderBoundary(x, x.code, FALSE, now))
       /\ obs' = Observe(i, x, FALSE, now)
    /\ UNCHANGED <<iframeVars, bridgeVars, widgets, palette, now>>

\* ShadowWrapper's mount effect: attachShadow, setShadowRoot; the portal then
\* mounts the boundary and its children.
AttachShadow(i) ==
    /\ HostUp /\ NoSync /\ i \in widgets
    /\ w[i].dimensions.width > 0 /\ ~w[i].shadowRoot
    /\ LET x == [w[i] EXCEPT !.shadowRoot = TRUE, !.hasError = FALSE,
                             !.errorMsg = ""] IN
       /\ Apply(i, InnerCustomCodeWidget(x, TRUE, now))
       /\ obs' = Observe(i, x, TRUE, now)
    /\ UNCHANGED <<iframeVars, bridgeVars, widgets, palette, now, budget>>

\* The host supplies a different WidgetSource through the code prop.
SetCode(i, c) ==
    /\ HostUp /\ NoSync /\ i \in widgets /\ Spend
    /\ c \in palette /\ c # w[i].code
    /\ LET x == [w[i] EXCEPT !.code = c, !.thrown = NoValue, !.phase = "none",
                             !.latch = "", !.loopAt = -1, !.retried = FALSE] IN
       /\ Apply(i, IF BoundaryMounted(x)
                   THEN RenderBoundary(x, w[i].code, TRUE, now)
                   ELSE x)
       /\ obs' = Observe(i, x, TRUE, now)
    /\ UNCHANGED <<iframeVars, bridgeVars, widgets, palette, now>>

\* The host re-renders the widget: with a new customData value, or with the
\* same props (an unrelated re-render of the dashboard).
HostRender(i, d) ==
    /\ HostUp /\ NoSync /\ i \in widgets /\ Spend
    /\ LET x == [w[i] EXCEPT !.customData = d] IN
       /\ Apply(i, IF BoundaryMounted(x)
                   THEN RenderBoundary(x, x.code, FALSE, now)
                   ELSE x)
       /\ obs' = Observe(i, x, FALSE, now)
    /\ UNCHANGED <<iframeVars, bridgeVars, widgets, palette, now>>

\* The host re-renders the widget with a new function object as the
\* onReportError prop: the compile useMemo depends on [code, onReportError],
\* so its body runs again and returns a new component type; React unmounts
\* the old generated component and mounts the new one with fresh refs.
SetOnReportError(i) ==
    /\ HostUp /\ NoSync /\ i \in widgets /\ Spend
    /\ Apply(i, IF BoundaryMounted(w[i])
                THEN RenderBoundary(w[i], w[i].code, TRUE, now)
                ELSE w[i])
    /\ obs' = Observe(i, w[i], TRUE, now)
    /\ UNCHANGED <<iframeVars, bridgeVars, widgets, palette, now>>

\* The re-render scheduled by a state update of the generated code.
SelfRender(i) ==
    /\ HostUp /\ NoSync /\ i \in widgets
    /\ w[i].pending = "self"
    /\ Apply(i, RenderBoundary(w[i], w[i].code, FALSE, now))
    /\ obs' = Observe(i, w[i], FALSE, now)
    /\ UNCHANGED <<iframeVars, bridgeVars, widgets, palette, now, budget>>

\* The re-render queued by componentDidUpdate's setState.
FlushReset(i) ==
    /\ HostUp /\ i \in widgets
    /\ w[i].pending = "sync"
    /\ LET x == [w[i] EXCEPT !.pending = "none", !.cleared = ""] IN
       /\ Apply(i, RenderBoundary(x, x.code, FALSE, now))
       /\ obs' = Observe(i, x, FALSE, now)
    /\ UNCHANGED <<iframeVars, bridgeVars, widgets, palette, now, budget>>

\* One widget on the dashboard, any source of the palette.
Init ==
    /\ widgets = {1}
    /\ palette = Sources
    /\ now = 0
    /\ \E c \in Sources :
          w = [i \in Inst |-> NewWidget(IF i = 1 THEN c ELSE SrcEmpty, "{}")]
    /\ obs = ObsOff
    /\ budget = -1
    /\ IframeIdle
    /\ BridgeIdle

Next ==
    \/ \E d \in TickSteps : Tick(d)
    \/ \E i \in Inst, wd \in Widths, ht \in Heights : Resize(i, wd, ht)
    \/ \E i \in Inst : AttachShadow(i)
    \/ \E i \in Inst, c \in Sources : SetCode(i, c)
    \/ \E i \in Inst, d \in DataValues : HostRender(i, d)
    \/ \E i \in Inst : SetOnReportError(i)
    \/ \E i \in Inst : SelfRender(i)
    \/ \E i \in Inst : FlushReset(i)

Spec == Init /\ [][Next]_vars

(***************************************************************************)
(* The render guard of one mounted instance under arbitrary timing.        *)
(***************************************************************************)

\* The state of a widget whose source c was mounted at time 0 (the state Spec
\* reaches by Resize(1, 1, 1) and AttachShadow(1)).
MountedAtZero(c) ==
    InnerCustomCodeWidget(
        [NewWidget(c, "{}") EXCEPT !.dimensions = [width |-> 1, height |-> 1],
                                   !.shadowRoot = TRUE],
        TRUE, 0)

\* The observer's span starts with the mount, or is marked later.
ObsAtMount ==
    [tracking |-> TRUE, lastAt |-> 0, spaced |-> TRUE,
     on |-> TRUE, start |-> 0, prev |-> 0 - (WindowMs + 1), count |-> 1,
     aligned |-> TRUE]

InitGuard ==
    /\ widgets = {1}
    /\ palette = {SrcHello, SrcLoop}
    /\ now = 0
    /\ \E c \in {SrcHello, SrcLoop} :
          w = [i \in Inst |-> IF i = 1 THEN MountedAtZero(c)
                              ELSE NewWidget(SrcEmpty, "{}")]
    /\ obs \in {ObsAtMount, [ObsAtMount EXCEPT !.on = FALSE, !.count = 0,
                                               !.aligned = FALSE, !.prev = 0]}
    /\ budget = -1
    /\ IframeIdle
    /\ BridgeIdle

\* The clock advances and the observer marks the new time as its span start.
TickMark(d) ==
    /\ now + d <= MaxTime
    /\ obs.tracking /\ ~obs.on
    /\ now' = now + d
    /\ obs' = [obs EXCEPT !.on = TRUE, !.start = now + d, !.prev = now,
                          !.count = 0, !.aligned = FALSE]
    /\ UNCHANGED <<iframeVars, bridgeVars, widgets, palette, w, budget>>

NextGuard ==
    \/ \E d \in TickSteps : Tick(d)
    \/ \E d \in TickSteps : TickMark(d)
    \/ \E i \in Inst : HostRender(i, w[i].customData)
    \/ \E i \in Inst : SelfRender(i)

SpecGuard == InitGuard /\ [][NextGuard]_vars

(***************************************************************************)
(* Two widgets on one dashboard (one React root), a bounded number of host *)
(* events.                                                                 *)
(***************************************************************************)
InitSiblings ==
    /\ widgets = {1, 2}
    /\ palette = {SrcHello, SrcBoom, SrcNull}
    /\ now = 0
    /\ \E c1 \in {SrcHello, SrcBoom}, c2 \in {SrcHello, SrcBoom} :
          w = [i \in Inst |-> NewWidget(IF i = 1 THEN c1 ELSE c2, "{}")]
    /\ obs = ObsOff
    /\ budget = MaxSiblingSteps
    /\ IframeIdle
    /\ BridgeIdle

NextSiblings ==
    \/ \E i \in Inst, wd \in Widths, ht \in Heights : Resize(i, wd, ht)
    \/ \E i \in Inst : AttachShadow(i)
    \/ \E i \in Inst, c \in Sources : SetCode(i, c)
    \/ \E i \in Inst, d \in DataValues : HostRender(i, d)
    \/ \E i \in Inst : FlushReset(i)

SpecSiblings == InitSiblings /\ [][NextSiblings]_vars

(***************************************************************************)
(* The callbacks of one in-process widget: the fallback views' buttons.    *)
(***************************************************************************)
HostSources ==
    {SrcBlank, SrcHello, SrcBoom, SrcSyntax, SrcSave, SrcSaveTwice,
     SrcFetch, SrcFetchCaught}

\* What fetch('/api/proxy') gives the client: the proxy's reply (status
\* and body), or no reply at all (the request to the proxy failed).
Reply(n, b, e, d) ==
    [kind |-> "response", status |-> n, body |-> b, error |-> e, details |-> d]
ProxyReplies ==
    {Reply(200, "json", "", ""),
     Reply(400, "json", "Invalid URL format", ""),
     Reply(502, "json", "Network Error - Could not reach target", "fetch failed"),
     Reply(500, "text", "", ""),
     Reply(404, "empty", "", ""),
     [kind |-> "unreachable", status |-> 0, body |-> "empty",
      error |-> "", details |-> ""]}

\* The text of a non-JSON error body, and the decimal form of a status.
ErrorText == "Internal Server Error"
StatusString(n) ==
    CASE n = 400 -> "400" [] n = 404 -> "404" [] n = 500 -> "500"
      [] n = 502 -> "502" [] OTHER -> "200"

\* response.ok
Ok(n) == n >= 200 /\ n <= 299

\* proxyFetch up to the cookie accessor: how the promise settles for a
\* reply of the proxy.
proxyFetch(reply) ==
    IF reply.kind = "unreachable"
    THEN [kind |-> "rejected", message |-> "Failed to fetch"]
    ELSE IF ~Ok(reply.status)
    THEN LET errorDetails == "Proxy Error (" \o StatusString(reply.status) \o ")"
         IN [kind |-> "rejected",
             message |->
                CASE reply.body = "json" ->
                        IF reply.details # "" THEN reply.details
                        ELSE IF reply.error # "" THEN reply.error
                        ELSE errorDetails
                  [] reply.body = "text" -> errorDetails \o ": " \o ErrorText
                  [] OTHER -> errorDetails]
    ELSE [kind |-> "resolved", message |-> ""]

\* Whether the generated code handles a rejection of the promise.
Catches(c) == c = SrcFetchCaught

\* The values the click handler of the generated code passes to
\* props.setCustomData, in call order.
Saves(c) ==
    CASE c = SrcSave      -> <<"{b:2}">>
      [] c = SrcSaveTwice -> <<"{a:1}", "{b:2}">>
      [] OTHER            -> <<>>

\* {...a, ...b} on the customData values of the model.
Spread(a, b) ==
    IF a = b \/ a = "{}" THEN b
    ELSE IF b = "{}" THEN a
    ELSE "{a:1,b:2}"

\* handleCustomDataUpdate that merges the new value into the old one.
C14HandleCustomDataUpdateMerges(config, newData) ==
    [config EXCEPT !.customData = Spread(config.customData, newData)]

\* UniversalWidget.handleCustomDataUpdate: the config handed to onUpdate,
\* built from the config of the render whose closure is called.
handleCustomDataUpdate(config, newData) ==
    [config EXCEPT !.customData = newData]

\* App.updateWidgetConfig applied to the configs of a sequence of
\* onSetCustomData calls made from the same render: each replaces the
\* widget's config.
RECURSIVE updateWidgetConfig(_, _, _)
updateWidgetConfig(stored, closure, values) ==
    IF values = <<>> THEN stored
    ELSE updateWidgetConfig(handleCustomDataUpdate(closure, Head(values)),
                            closure, Tail(values))

\* Fallback buttons that both pass the code.
C15FallbackCallAlwaysWithCode(x, withCode) ==
    [message |-> IF x.hasError THEN x.errorMsg ELSE Compile(x.code).message,
     code |-> x.code,
     args |-> IF withCode THEN 2 ELSE 1,
     view |-> View(x), src |-> x.code, thrown |-> x.thrown]

\* The call a fallback button makes: onReportError(message) for 'Error
\* Only', onReportError(message, code) for 'Fix Code'.  The Crashed view
\* passes this.state.errorMsg and this.props.code, the compile-error view
\* err.message and the code its useMemo closed over.  History: view and src
\* (what the widget showed and its source when the button was clicked),
\* thrown (the exception the view stands for).
FallbackCall(x, withCode) ==
    [message |-> IF x.hasError THEN x.errorMsg ELSE Compile(x.code).message,
     code |-> IF withCode THEN x.code ELSE "",
     args |-> IF withCode THEN 2 ELSE 1,
     view |-> View(x), src |-> x.code, thrown |-> x.thrown]

\* A fallback view with its buttons is on screen.
HasButtons(x) == View(x) \in {"crashed", "compileError"}

\* A click on a fallback button: the call reaches reportWidgetError, whose
\* state updates re-render the dashboard and with it the widget.
Click(i, withCode) ==
    /\ HostUp /\ NoSync /\ i \in widgets /\ Spend
    /\ HasButtons(w[i])
    /\ calls' = [calls EXCEPT !.onReportError =
                                Append(@, FallbackCall(w[i], withCode))]
    /\ Apply(i, RenderBoundary(w[i], w[i].code, FALSE, now))
    /\ UNCHANGED <<iframeVars, widgets, palette, now, obs, proxy, app>>

\* The user clicks the button rendered by the generated code: each
\* props.setCustomData(v) is onSetCustomData(v) (the prop is passed through
\* unchanged), the host stores the resulting config and re-renders the
\* widget with it.
SetCustomData(i) ==
    /\ HostUp /\ NoSync /\ i \in widgets /\ Spend
    /\ View(w[i]) = "output" /\ Saves(w[i].code) # <<>>
    /\ Len(calls.setCustomData) + Len(Saves(w[i].code)) <= MaxSaves
    /\ LET values == Saves(w[i].code)
           config == [customCode |-> w[i].code, customData |-> w[i].customData]
           stored == updateWidgetConfig(config, config, values)
           x == [w[i] EXCEPT !.code = stored.customCode,
                             !.customData = stored.customData]
       IN /\ calls' = [calls EXCEPT !.setCustomData = @ \o values,
                                    !.onSetCustomData = @ \o values]
          /\ Apply(i, RenderBoundary(x, w[i].code, FALSE, now))
    /\ UNCHANGED <<iframeVars, widgets, palette, now, obs, proxy, app>>

\* The user clicks the button rendered by the generated code, its handler
\* calls proxyFetch and the promise settles.  A rejection nobody handles
\* ends as the window's unhandledrejection event: no component of the
\* engine listens to it and React does not route it to an error boundary.
ProxyFetchSettles(i, reply) ==
    /\ HostUp /\ NoSync /\ i \in widgets /\ Spend
    /\ View(w[i]) = "output" /\ w[i].code \in {SrcFetch, SrcFetchCaught}
    /\ LET r == proxyFetch(reply) IN
       calls' = [calls EXCEPT !.settled =
                    [kind |-> r.kind, reply |-> reply.kind,
                     message |-> r.message,
                     caught |-> r.kind = "rejected" /\ Catches(w[i].code)]]
    /\ UNCHANGED <<iframeVars, widgets, palette, now, w, obs, proxy, app>>

ClickErrorOnly(i) == Click(i, FALSE)

ClickFixCode(i) == Click(i, TRUE)

InitHost ==
    /\ widgets = {1}
    /\ palette = HostSources
    /\ now = 0
    /\ \E c \in HostSources :
          w = [i \in Inst |-> NewWidget(IF i = 1 THEN c ELSE SrcEmpty, "{}")]
    /\ obs = ObsOff
    /\ budget = MaxHostSteps
    /\ IframeIdle
    /\ BridgeIdle

NextHost ==
    \/ \E i \in Inst, wd \in Widths, ht \in Heights : Resize(i, wd, ht)
    \/ \E i \in Inst : AttachShadow(i)
    \/ \E i \in Inst, c \in HostSources : SetCode(i, c)
    \/ \E i \in Inst, d \in DataValues : HostRender(i, d)
    \/ \E i \in Inst : FlushReset(i)
    \/ \E i \in Inst : ClickErrorOnly(i)
    \/ \E i \in Inst : ClickFixCode(i)
    \/ \E i \in Inst : SetCustomData(i)
    \/ \E i \in Inst, reply \in ProxyReplies : ProxyFetchSettles(i, reply)

SpecHost == InitHost /\ [][NextHost]_vars

(***************************************************************************)
(* Part II: the iframe-hosted engine (components/widgets/CustomCodeWidget). *)
(* The parent component and the document inside the iframe exchange         *)
(* messages through postMessage; each direction is a FIFO queue.            *)
(***************************************************************************)
IframeSources ==
    {SrcEmpty, SrcBlank, SrcHello, SrcBoom, SrcLate, SrcLoop, SrcSyntax}

\* error.message of a thrown value (undefined, modelled as "", when the
\* value is not an Error).
message(error) == IF error.t = "Error" THEN error.v ELSE ""

\* The compile useMemo of WidgetRunner: `if (!code) return null`, then
\* new Function.
IframeCompile(c) ==
    IF c = "" THEN [kind |-> "empty", message |-> ""]
    ELSE IF c = SrcSyntax THEN [kind |-> "compileError", message |-> SyntaxMessage]
    ELSE [kind |-> "factory", message |-> ""]

\* ErrorBoundary (iframe) catches `error`: getDerivedStateFromError, the
\* fallback replaces WidgetRunner (whose effect cleanup removes the message
\* handler), componentDidCatch posts REPORT_ERROR.
ErrorBoundary(f, error) ==
    [state |-> [f EXCEPT !.hasError = TRUE, !.error = error,
                         !.runner = FALSE, !.mounted = FALSE,
                         !.pending = FALSE, !.errSrc = f.code],
     posts |-> <<Msg("REPORT_ERROR", "", Props(0, 0, ""), message(error))>>]

\* One render of WidgetRunner with state f, and its commit.  The factory is
\* invoked directly: (componentProps) => func(React, ..., proxyFetch).
WidgetRunner(f) ==
    LET recompile == f.code # f.memoCode
        comp == IframeCompile(f.code)
        failed == recompile /\ comp.kind = "compileError"
        g == [f EXCEPT !.memoCode = f.code,
                       !.generated = IF recompile THEN comp.kind = "factory"
                                     ELSE f.generated,
                       !.compileError = IF failed THEN comp.message
                                        ELSE f.compileError,
                       !.calls = IF recompile THEN 0 ELSE f.calls]
        fresh == recompile \/ ~f.mounted
        report == IF failed
                  THEN <<Msg("REPORT_ERROR", "", Props(0, 0, ""), comp.message)>>
                  ELSE <<>>
        out == Invoke(g.code)
        h == [g EXCEPT !.mounted = TRUE, !.calls = g.calls + 1,
                       !.pending = FALSE]
    IN IF g.compileError # "" \/ ~g.generated
       THEN [state |-> [g EXCEPT !.mounted = FALSE, !.pending = FALSE],
             posts |-> report]
       ELSE IF out.throws THEN ErrorBoundary(h, out.value)
       ELSE IF out.effect = "throw" /\ fresh
            THEN ErrorBoundary(h, out.effectValue)
       ELSE [state |-> [h EXCEPT !.pending = (out.effect = "setState")],
             posts |-> <<>>]

\* The message handler registered by WidgetRunner's mount effect.
handler(f, m) ==
    IF m.type \in {"INIT", "UPDATE_CODE"}
    THEN [f EXCEPT !.code = m.code, !.props = m.props, !.compileError = ""]
    ELSE IF m.type = "UPDATE_PROPS" THEN [f EXCEPT !.props = m.props]
    ELSE f

\* What the iframe shows.
IframeView(f) ==
    IF ~f.booted THEN "none"
    ELSE IF f.hasError THEN "crashed"
    ELSE IF f.compileError # "" THEN "compileError"
    ELSE IF ~f.generated THEN "initializing"
    ELSE "output"

\* The iframe's module script runs: root.render(ErrorBoundary > WidgetRunner),
\* the first render (code is '') and the mount effect that posts READY.
IframeLoad ==
    /\ ~iframe.booted
    /\ LET r == WidgetRunner([iframe EXCEPT !.booted = TRUE, !.runner = TRUE])
       IN /\ iframe' = r.state
          /\ toParent' = toParent \o r.posts
                         \o <<Msg("READY", "", Props(0, 0, ""), "")>>
    /\ UNCHANGED <<engineVars, bridgeVars, parent, toIframe, frames>>

\* handleMessage of the parent for the next message of its own iframe, and
\* the effects of the re-render it causes.
handleMessage ==
    /\ toParent # <<>>
    /\ LET m == Head(toParent) IN
       /\ toParent' = Tail(toParent)
       /\ CASE m.type = "READY" ->
                 /\ parent' = [parent EXCEPT !.isReady = TRUE, !.crashError = ""]
                 /\ toIframe' = toIframe \o
                      <<Msg("INIT", parent.code, ParentProps(parent), ""),
                        Msg("UPDATE_PROPS", "", ParentProps(parent), ""),
                        Msg("UPDATE_CODE", parent.code, ParentProps(parent), "")>>
            [] m.type = "REPORT_ERROR" ->
                 /\ parent' = [parent EXCEPT !.crashError = m.error]
                 /\ UNCHANGED toIframe
            [] OTHER -> UNCHANGED <<parent, toIframe>>
    /\ UNCHANGED <<engineVars, bridgeVars, iframe, frames>>

\* The host supplies a different code prop: the UPDATE_CODE effect.
ParentSetCode(c) ==
    /\ c \in palette /\ c # parent.code
    /\ budget > 0 /\ budget' = budget - 1
    /\ IF parent.isReady
       THEN /\ parent' = [parent EXCEPT
                            !.code = c, !.crashError = "",
                            !.afterCrash = parent.afterCrash
                                \/ (parent.crashError # "" /\ iframe.hasError)]
            /\ toIframe' = Append(toIframe,
                                  Msg("UPDATE_CODE", c, ParentProps(parent), ""))
       ELSE /\ parent' = [parent EXCEPT !.code = c]
            /\ UNCHANGED toIframe
    /\ UNCHANGED <<bridgeVars, widgets, palette, now, w, obs, iframe, toParent, frames>>

\* The resize observer reports a size or the host supplies customData: the
\* UPDATE_PROPS effect.
ParentUpdateProps(wd, ht, d) ==
    /\ budget > 0 /\ budget' = budget - 1
    /\ parent' = [parent EXCEPT !.dimensions = [width |-> wd, height |-> ht],
                                !.customData = d]
    /\ toIframe' = IF parent.isReady
                   THEN Append(toIframe,
                               Msg("UPDATE_PROPS", "", Props(wd, ht, d), ""))
                   ELSE toIframe
    /\ UNCHANGED <<bridgeVars, widgets, palette, now, w, obs, iframe, toParent, frames>>

\* The iframe window dispatches the next message: WidgetRunner's handler
\* runs if it is registered, and WidgetRunner renders again.
IframeReceive ==
    /\ toIframe # <<>>
    /\ iframe.booted
    /\ iframe.calls < MaxIframeCalls
    /\ toIframe' = Tail(toIframe)
    /\ IF iframe.runner
       THEN LET r == WidgetRunner(handler(iframe, Head(toIframe)))
            IN /\ iframe' = r.state
               /\ toParent' = toParent \o r.posts
       ELSE UNCHANGED <<iframe, toParent>>
    /\ UNCHANGED <<engineVars, bridgeVars, parent, frames>>

\* The generated component re-renders after its own state update.
IframeSelfRender ==
    /\ iframe.runner /\ iframe.pending
    /\ iframe.calls < MaxIframeCalls
    /\ LET r == WidgetRunner(iframe)
       IN /\ iframe' = r.state
          /\ toParent' = toParent \o r.posts
    /\ UNCHANGED <<engineVars, bridgeVars, parent, toIframe, frames>>

\* One iframe-hosted widget; the in-process engine is idle.
InitIframe ==
    /\ widgets = {}
    /\ palette = IframeSources
    /\ now = 0
    /\ w = [i \in Inst |-> NewWidget(SrcEmpty, "{}")]
    /\ obs = ObsOff
    /\ budget = MaxIframeSteps
    /\ \E c \in IframeSources : parent = NewParent(c)
    /\ iframe = NewIframe
    /\ toIframe = <<>>
    /\ toParent = <<>>
    /\ frames = FramesIdle
    /\ BridgeIdle

NextIframe ==
    \/ IframeLoad
    \/ handleMessage
    \/ \E c \in IframeSources : ParentSetCode(c)
    \/ \E wd \in Widths, ht \in Heights, d \in DataValues :
          ParentUpdateProps(wd, ht, d)
    \/ IframeReceive
    \/ IframeSelfRender

SpecIframe == InitIframe /\ [][NextIframe]_vars

(***************************************************************************)
(* Part II, continued: several iframe-hosted widgets on one dashboard.     *)
(* Every iframe posts to the one parent window, where each widget's        *)
(* handleMessage listens; each widget posts to its own iframe.  The frames *)
(* variable holds, per widget, the parent's customData and crashError, the *)
(* two message queues, window.pendingFetches and the promises proxyFetch   *)
(* returned, and the requests inside performProxyFetch.                    *)
(***************************************************************************)
Frame == {1, 2}
Call == 1..MaxFetchCalls

\* Values of Math.random().toString(36).substr(2, 9).
FetchIds == {"k3x9q0zr1", "p07aa2m4c"}

\* options.signal of a proxyFetch call: none, a signal not yet aborted, a
\* signal that is aborted already.
Signals == {"none", "live", "aborted"}

\* Outcomes of performProxyFetch: the status of the reply of /api/proxy
\* (its body text is '' when the status carries no body), or 0 when fetch
\* threw.
FetchOutcomes == {0, 200, 204}
FetchFailed == "Failed to fetch"

\* new Response(body, init) throws a TypeError when init.status is a null
\* body status and body is not null; the body handed over is always a string.
NullBodyStatus(n) == n \in {101, 103, 204, 205, 304}

\* A promise returned by proxyFetch.  History: tries (the calls of resolve or
\* reject), by (what settled it: the abort listener, or the FETCH_RESULT that
\* answers call `call` of iframe `frame`).
NoPromise ==
    [state |-> "none", id |-> "", signal |-> "none", tries |-> 0,
     by |-> [kind |-> "none", frame |-> 0, call |-> 0]]

\* The messages.  History: src (the window that posted the request), call (the
\* proxyFetch call a PROXY_FETCH or FETCH_RESULT belongs to), by (the widget
\* whose handleMessage produced the message).
Up(type, id, data, error, call) ==
    [type |-> type, id |-> id, data |-> data, error |-> error, call |-> call]
Down(type, id, status, error, by, src, call) ==
    [type |-> type, id |-> id, status |-> status, error |-> error,
     by |-> by, src |-> src, call |-> call]

\* Two widgets whose iframes have loaded and posted READY.
NewFrames ==
    [stage |-> "run",
     isReady |-> [i \in Frame |-> FALSE],
     customData |-> [i \in Frame |-> "{}"],
     crashError |-> [i \in Frame |-> ""],
     up |-> [i \in Frame |-> <<Up("READY", "", "", "", 0)>>],
     down |-> [i \in Frame |-> <<>>],
     pendingFetches |-> [i \in Frame |-> [x \in FetchIds |-> 0]],
     promise |-> [i \in Frame |-> [k \in Call |-> NoPromise]],
     flight |-> {},
     posts |-> 0,
     reused |-> FALSE]

\* resolve or reject of promise k of iframe i: a promise keeps its first
\* settlement.
Settle(fr, i, k, state, by) ==
    LET p == fr.promise[i][k] IN
    [fr EXCEPT !.promise[i][k] =
        [p EXCEPT !.tries = p.tries + 1,
                  !.state = IF p.state = "pending" THEN state ELSE p.state,
                  !.by = IF p.state = "pending" THEN by ELSE p.by]]

\* handleMessage of widget i without the event.source comparison.
C25HandleMessageAnySource(fr, i, j, m) ==
    CASE m.type = "READY" ->
            [fr EXCEPT !.isReady[i] = TRUE,
                       !.down[i] = Append(fr.down[i],
                                          Down("INIT", "", 0, "", i, j, 0))]
      [] m.type = "SET_CUSTOM_DATA" -> [fr EXCEPT !.customData[i] = m.data]
      [] m.type = "REPORT_ERROR" -> [fr EXCEPT !.crashError[i] = m.error]
      [] m.type = "PROXY_FETCH" ->
            [fr EXCEPT !.flight = fr.flight \cup
                          {[by |-> i, src |-> j, id |-> m.id, call |-> m.call]}]
      [] OTHER -> fr

\* handleMessage of widget i for the message m whose event.source is the
\* window of iframe j.
FrameHandleMessage(fr, i, j, m) ==
    IF j # i THEN fr
    ELSE CASE m.type = "READY" ->
                 [fr EXCEPT !.isReady[i] = TRUE,
                            !.down[i] = Append(fr.down[i],
                                               Down("INIT", "", 0, "", i, j, 0))]
           [] m.type = "SET_CUSTOM_DATA" -> [fr EXCEPT !.customData[i] = m.data]
           [] m.type = "REPORT_ERROR" -> [fr EXCEPT !.crashError[i] = m.error]
           [] m.type = "PROXY_FETCH" ->
                 [fr EXCEPT !.flight = fr.flight \cup
                          {[by |-> i, src |-> j, id |-> m.id, call |-> m.call]}]
           [] OTHER -> fr

\* WidgetRunner's handler of iframe i for a FETCH_RESULT.
FetchResult(fr, i, m) ==
    LET k == fr.pendingFetches[i][m.id]
        by == [kind |-> "result", frame |-> m.src, call |-> m.call]
    IN IF k = 0 THEN fr
       ELSE IF m.error # ""
       THEN [Settle(fr, i, k, "rejected", by) EXCEPT !.pendingFetches[i][m.id] = 0]
       ELSE IF NullBodyStatus(m.status) THEN fr
       ELSE [Settle(fr, i, k, "resolved", by) EXCEPT !.pendingFetches[i][m.id] = 0]

\* The proxyFetch calls made so far on the dashboard.
FetchCalls ==
    Cardinality({c \in Frame \X Call : frames.promise[c[1]][c[2]].state # "none"})

\* Generated code of iframe i calls proxyFetch; the call draws its id.
FrameProxyFetch(i, id, sig) ==
    /\ frames.stage = "run"
    /\ FetchCalls < MaxFetchCalls
    /\ \E k \in Call :
          /\ frames.promise[i][k].state = "none"
          /\ \A l \in Call : l < k => frames.promise[i][l].state # "none"
          /\ LET p == [NoPromise EXCEPT !.state = "pending", !.id = id,
                                        !.signal = sig]
                 issued == [frames EXCEPT !.promise[i][k] = p]
             IN frames' =
                  IF sig = "aborted"
                  THEN Settle(issued, i, k, "rejected",
                              [kind |-> "abort", frame |-> i, call |-> k])
                  ELSE [issued EXCEPT
                          !.pendingFetches[i][id] = k,
                          !.up[i] = Append(frames.up[i],
                                           Up("PROXY_FETCH", id, "", "", k)),
                          !.reused = frames.reused
                              \/ \E l \in Call : /\ l < k
                                                 /\ frames.promise[i][l].id = id]
    /\ UNCHANGED <<engineVars, bridgeVars, parent, iframe, toIframe, toParent>>

\* The signal of call k of iframe i is aborted: the call's abort listener.
FrameAbort(i, k) ==
    /\ frames.stage = "run"
    /\ frames.promise[i][k].signal = "live"
    /\ LET id == frames.promise[i][k].id
           fired == [frames EXCEPT !.promise[i][k].signal = "aborted"]
       IN frames' =
            IF frames.pendingFetches[i][id] # 0
            THEN [Settle(fired, i, k, "rejected",
                         [kind |-> "abort", frame |-> i, call |-> k])
                    EXCEPT !.pendingFetches[i][id] = 0]
            ELSE fired
    /\ UNCHANGED <<engineVars, bridgeVars, parent, iframe, toIframe, toParent>>

\* Generated code of iframe i calls props.setCustomData(d).
FrameSetCustomData(i, d) ==
    /\ frames.stage = "run"
    /\ frames.posts < MaxFramePosts
    /\ frames' = [frames EXCEPT
                    !.posts = frames.posts + 1,
                    !.up[i] = Append(frames.up[i],
                                     Up("SET_CUSTOM_DATA", "", d, "", 0))]
    /\ UNCHANGED <<engineVars, bridgeVars, parent, iframe, toIframe, toParent>>

\* The ErrorBoundary of iframe i posts REPORT_ERROR.
FrameReportError(i) ==
    /\ frames.stage = "run"
    /\ frames.posts < MaxFramePosts
    /\ frames' = [frames EXCEPT
                    !.posts = frames.posts + 1,
                    !.up[i] = Append(frames.up[i],
                                     Up("REPORT_ERROR", "", "", "boom", 0))]
    /\ UNCHANGED <<engineVars, bridgeVars, parent, iframe, toIframe, toParent>>

\* The parent window dispatches the next message of iframe j to every
\* widget's handleMessage listener.
ParentDispatch(j) ==
    /\ frames.stage = "run"
    /\ frames.up[j] # <<>>
    /\ LET m == Head(frames.up[j])
           taken == [frames EXCEPT !.up[j] = Tail(frames.up[j])]
       IN frames' = FrameHandleMessage(FrameHandleMessage(taken, 1, j, m), 2, j, m)
    /\ UNCHANGED <<engineVars, bridgeVars, parent, iframe, toIframe, toParent>>

\* performProxyFetch of the request r returns or throws; handleMessage posts
\* the FETCH_RESULT to the iframe of its own widget.
PerformProxyFetch(r, n) ==
    /\ frames.stage = "run"
    /\ r \in frames.flight
    /\ frames' = [frames EXCEPT
                    !.flight = frames.flight \ {r},
                    !.down[r.by] = Append(frames.down[r.by],
                        Down("FETCH_RESULT", r.id, n,
                             IF n = 0 THEN FetchFailed ELSE "",
                             r.by, r.src, r.call))]
    /\ UNCHANGED <<engineVars, bridgeVars, parent, iframe, toIframe, toParent>>

\* The window of iframe i dispatches its next message to WidgetRunner's
\* handler.
FrameReceive(i) ==
    /\ frames.stage = "run"
    /\ frames.down[i] # <<>>
    /\ LET m == Head(frames.down[i])
           taken == [frames EXCEPT !.down[i] = Tail(frames.down[i])]
       IN frames' = IF m.type = "FETCH_RESULT" THEN FetchResult(taken, i, m)
                    ELSE taken
    /\ UNCHANGED <<engineVars, bridgeVars, parent, iframe, toIframe, toParent>>

InitFrames ==
    /\ widgets = {}
    /\ palette = {}
    /\ now = 0
    /\ w = [i \in Inst |-> NewWidget(SrcEmpty, "{}")]
    /\ obs = ObsOff
    /\ budget = -1
    /\ parent = NewParent(SrcEmpty)
    /\ iframe = NewIframe
    /\ toIframe = <<>>
    /\ toParent = <<>>
    /\ frames = NewFrames
    /\ BridgeIdle

NextFrames ==
    \/ \E i \in Frame, id \in FetchIds, sig \in Signals : FrameProxyFetch(i, id, sig)
    \/ \E i \in Frame, k \in Call : FrameAbort(i, k)
    \/ \E i \in Frame, d \in DataValues : FrameSetCustomData(i, d)
    \/ \E i \in Frame : FrameReportError(i)
    \/ \E j \in Frame : ParentDispatch(j)
    \/ \E r \in frames.flight, n \in FetchOutcomes : PerformProxyFetch(r, n)
    \/ \E i \in Frame : FrameReceive(i)

SpecFrames == InitFrames /\ [][NextFrames]_vars

(***************************************************************************)
(* The dashboard store of App: data.widgets, the initial load from         *)
(* GET /api/config, the debounced auto-save to POST /api/config, and the   *)
(* config updates of UniversalWidget.                                      *)
(***************************************************************************)
WidgetIds == {"w1", "w2"}
Labels == {"CPU", "Disk"}

Config(code, label, d) == [customCode |-> code, label |-> label, customData |-> d]
Widget(config, title) == [config |-> config, title |-> title]

\* DEFAULT_DATA.widgets is [].
DefaultWidgets == [i \in {} |-> Widget(Config("", "", "{}"), "")]

\* A configuration the server has stored from an earlier session.
StoredWidgets ==
    [i \in WidgetIds |->
        IF i = "w1" THEN Widget(Config(SrcSave, "CPU", "{}"), "CPU")
        ELSE Widget(Config(SrcHello, "Disk", "{a:1}"), "Disk")]

\* No generated code holds a setCustomData function for later.
NoConfig == [customCode |-> "<none>", label |-> "", customData |-> ""]
NoTimer == [set |-> FALSE, data |-> DefaultWidgets]

\* App after its first render.  captured is the config closed over by the
\* props.setCustomData a pending callback of the widget's generated code
\* holds.  History: changed (the dashboard was changed since the start),
\* posts (the POST /api/config requests made), writes and wrote (the
\* setCustomData writes applied and the widget of the last one), steps.
NewApp(server) ==
    [stage |-> "run",
     data |-> DefaultWidgets,
     isLoaded |-> FALSE,
     load |-> "pending",
     timer |-> NoTimer,
     server |-> server,
     captured |-> [i \in WidgetIds |-> NoConfig],
     changed |-> FALSE,
     posts |-> <<>>,
     writes |-> 0,
     wrote |-> "",
     steps |-> 0]

\* The updater of updateWidgetConfig(id, newConfig): prev.widgets.map(...).
setData(widgetsOf, id, newConfig) ==
    [i \in DOMAIN widgetsOf |->
        IF i = id THEN Widget(newConfig, newConfig.label) ELSE widgetsOf[i]]

\* The auto-save effect after a render in which data or isLoaded changed:
\* the cleanup clears the old timeout, the body returns while !isLoaded and
\* else sets a timeout for saveData, whose closure holds this render's data.
AutoSave(a) ==
    IF a.isLoaded THEN [a EXCEPT !.timer = [set |-> TRUE, data |-> a.data]]
    ELSE a

AppStep == app.stage = "run" /\ app.steps < MaxAppSteps

\* loadConfig settles: the GET returned the server's JSON, or it failed (a
\* network error or a non-OK status), and `finally` sets isLoaded.
LoadConfig(outcome) ==
    /\ app.stage = "run" /\ app.load = "pending"
    /\ LET loaded == outcome = "ok" /\ DOMAIN app.server # {}
           a == [app EXCEPT !.load = outcome, !.isLoaded = TRUE,
                            !.data = IF loaded THEN app.server ELSE app.data]
       IN app' = AutoSave(a)
    /\ UNCHANGED <<engineVars, iframeVars, calls, proxy>>

\* addWidget: the user adds a widget.
addWidget(id, label) ==
    /\ AppStep /\ id \notin DOMAIN app.data
    /\ LET new == Widget(Config(SrcHello, label, "{}"), label)
           a == [app EXCEPT
                   !.data = [i \in DOMAIN app.data \cup {id} |->
                                IF i = id THEN new ELSE app.data[i]],
                   !.changed = TRUE, !.steps = app.steps + 1]
       IN app' = AutoSave(a)
    /\ UNCHANGED <<engineVars, iframeVars, calls, proxy>>

\* UniversalWidget.handleSave: the user saves an edit of the widget (label
\* and customCode from the form, the rest from the rendered config).
handleSave(id, label, code) ==
    /\ AppStep /\ id \in DOMAIN app.data
    /\ LET config == app.data[id].config
           a == [app EXCEPT
                   !.data = setData(app.data, id,
                                    [config EXCEPT !.label = label,
                                                   !.customCode = code]),
                   !.changed = TRUE, !.steps = app.steps + 1]
       IN app' = AutoSave(a)
    /\ UNCHANGED <<engineVars, iframeVars, calls, proxy>>

\* Generated code keeps props.setCustomData of the current render for a
\* callback that runs later (a promise reaction, a timer).
KeepSetCustomData(id) ==
    /\ AppStep /\ id \in DOMAIN app.data
    /\ app.captured[id] = NoConfig
    /\ app' = [app EXCEPT !.captured[id] = app.data[id].config,
                          !.steps = app.steps + 1]
    /\ UNCHANGED <<engineVars, iframeVars, calls, proxy>>

\* A setCustomData(v) write through the handleCustomDataUpdate whose closure
\* holds `config`.
CustomDataWrite(a, id, config, v) ==
    AutoSave([a EXCEPT !.data = setData(a.data, id, handleCustomDataUpdate(config, v)),
                       !.changed = TRUE, !.writes = a.writes + 1,
                       !.wrote = id, !.steps = a.steps + 1])

\* Generated code calls props.setCustomData(v) in an event handler of the
\* current render.
SetCustomDataNow(id, v) ==
    /\ AppStep /\ id \in DOMAIN app.data
    /\ app' = CustomDataWrite(app, id, app.data[id].config, v)
    /\ UNCHANGED <<engineVars, iframeVars, calls, proxy>>

\* The callback runs and calls the setCustomData it kept.
SetCustomDataLater(id, v) ==
    /\ AppStep
    /\ app.captured[id] # NoConfig
    /\ app' = CustomDataWrite([app EXCEPT !.captured[id] = NoConfig],
                              id, app.captured[id], v)
    /\ UNCHANGED <<engineVars, iframeVars, calls, proxy>>

\* The auto-save timeout fires: saveData POSTs the data of its render; the
\* server stores it unless the request fails.
saveData(stored) ==
    /\ app.stage = "run" /\ app.timer.set
    /\ Len(app.posts) < MaxPosts
    /\ app' = [app EXCEPT
                 !.timer = NoTimer,
                 !.posts = Append(app.posts,
                                  [data |-> app.timer.data, load |-> app.load,
                                   changed |-> app.changed, over |-> app.server]),
                 !.server = IF stored THEN app.timer.data ELSE app.server]
    /\ UNCHANGED <<engineVars, iframeVars, calls, proxy>>

InitApp ==
    /\ widgets = {}
    /\ palette = {}
    /\ now = 0
    /\ w = [i \in Inst |-> NewWidget(SrcEmpty, "{}")]
    /\ obs = ObsOff
    /\ budget = -1
    /\ IframeIdle
    /\ calls = NoCalls
    /\ proxy = ProxyIdle
    /\ \E server \in {DefaultWidgets, StoredWidgets} : app = NewApp(server)

NextApp ==
    \/ \E outcome \in {"ok", "failed"} : LoadConfig(outcome)
    \/ \E id \in WidgetIds, label \in Labels : addWidget(id, label)
    \/ \E id \in WidgetIds, label \in Labels, code \in {SrcHello, SrcSave} :
          handleSave(id, label, code)
    \/ \E id \in WidgetIds : KeepSetCustomData(id)
    \/ \E id \in WidgetIds, v \in DataValues : SetCustomDataNow(id, v)
    \/ \E id \in WidgetIds, v \in DataValues : SetCustomDataLater(id, v)
    \/ \E stored \in BOOLEAN : saveData(stored)

SpecApp == InitApp /\ [][NextApp]_vars

(***************************************************************************)
(* Part III: the network bridge.  One request travels from proxyFetch to   *)
(* POST /api/proxy, upstream and back.                                      *)
(***************************************************************************)
\* The url field of the request body; Undefined stands for a missing field.
Undefined == "<undefined>"
UrlExampleTest == "http://example.test/api"
UrlNas == "https://nas.local:8006/api2/json"
UrlMailto == "mailto:admin@example.test"
TargetUrls == {Undefined, "", "not a url", UrlExampleTest, UrlNas, UrlMailto}

\* A URL parser that accepts every text.
C20ParseURLAcceptsAll(u) ==
    [ok |-> TRUE,
     origin |-> CASE u = UrlExampleTest -> "http://example.test"
                  [] u = UrlNas -> "https://nas.local:8006"
                  [] OTHER -> "null"]

\* new URL(url): whether it parses, and the origin of the result.
ParseURL(u) ==
    CASE u = UrlExampleTest -> [ok |-> TRUE, origin |-> "http://example.test"]
      [] u = UrlNas         -> [ok |-> TRUE, origin |-> "https://nas.local:8006"]
      [] u = UrlMailto      -> [ok |-> TRUE, origin |-> "null"]
      [] OTHER              -> [ok |-> FALSE, origin |-> ""]

\* Whether fetch can send a request to the URL at all (http and https only).
Fetchable(u) == u \in {UrlExampleTest, UrlNas}

\* Header names as callers and servers write them, and their lower case.
HeaderNames ==
    {"host", "Host", "Content-Length", "connection",
     "Origin", "origin", "ORIGIN", "Referer", "User-Agent", "user-agent",
     "X-Api-Key"}
toLowerCase(n) ==
    CASE n \in {"host", "Host"} -> "host"
      [] n \in {"Content-Length", "content-length"} -> "content-length"
      [] n \in {"connection", "Connection"} -> "connection"
      [] n \in {"Origin", "origin", "ORIGIN"} -> "origin"
      [] n \in {"Referer", "referer"} -> "referer"
      [] n \in {"User-Agent", "user-agent"} -> "user-agent"
      [] n \in {"Set-Cookie", "set-cookie", "SET-COOKIE"} -> "set-cookie"
      [] n \in {"X-Set-Cookie", "x-set-cookie"} -> "x-set-cookie"
      [] n \in {"Content-Type", "content-type"} -> "content-type"
      [] n = "X-Api-Key" -> "x-api-key"
      [] OTHER -> n

\* The headers object of a caller: at most MaxCallerHeaders of the names,
\* each with a value of the caller.
CallerValue(n) == "caller " \o n
CallerHeaders ==
    {[n \in S |-> CallerValue(n)] :
        S \in {T \in SUBSET HeaderNames : Cardinality(T) <= MaxCallerHeaders}}

\* JavaScript object operations on a headers object.
Delete(h, k) == [n \in DOMAIN h \ {k} |-> h[n]]
Truthy(h, k) == k \in DOMAIN h /\ h[k] # ""
Assign(h, k, v) == [n \in DOMAIN h \cup {k} |-> IF n = k THEN v ELSE h[n]]

DefaultUserAgent == "Mozilla/5.0 (LRGEX-HUB-Proxy)"

\* restrictedHeaders.forEach(h => delete safeHeaders[h])
CleanRestricted(headers) ==
    Delete(Delete(Delete(headers, "host"), "content-length"), "connection")

\* The injection of Origin, Referer and User-Agent.
Inject(h, origin) ==
    LET h1 == IF ~Truthy(h, "Origin") /\ ~Truthy(h, "origin")
              THEN Assign(h, "Origin", origin) ELSE h
        h2 == IF ~Truthy(h1, "Referer") /\ ~Truthy(h1, "referer")
              THEN Assign(h1, "Referer", origin \o "/") ELSE h1
    IN IF ~Truthy(h2, "User-Agent") /\ ~Truthy(h2, "user-agent")
       THEN Assign(h2, "User-Agent", DefaultUserAgent) ELSE h2

\* safeHeaders as handed to fetch.
SafeHeaders(headers, origin) == Inject(CleanRestricted(headers), origin)

\* The values a headers object carries under a name, whatever its case.
Carried(h, lower) == {h[n] : n \in {k \in DOMAIN h : toLowerCase(k) = lower}}

\* Upstream responses: a status and the values of its Set-Cookie header
\* lines, in order (plus a Content-Type and a Content-Length).
Sid == "sid=abc123"
Theme == "theme=dark"
UpstreamResponses ==
    {[status |-> n, cookies |-> c] :
        n \in {200, 404, 502}, c \in {<<>>, <<Sid>>, <<Sid, Theme>>}}

\* The (key, value) pairs response.headers.forEach visits, in its sorted
\* order.  A header value is the list of the values of its lines.  Headers
\* that combine all Set-Cookie lines into one entry, and Headers that visit
\* every Set-Cookie line as an entry of its own, both exist among the Node
\* 18 releases the image tag resolves to.
Entry(k, v) == [key |-> k, val |-> v]
HeaderEntries(resp, mode) ==
    <<Entry("content-length", <<"2">>), Entry("content-type", <<"application/json">>)>>
    \o (IF resp.cookies = <<>> THEN <<>>
        ELSE IF mode = "combined" THEN <<Entry("set-cookie", resp.cookies)>>
        ELSE [k \in 1..Len(resp.cookies) |->
                 Entry("set-cookie", <<resp.cookies[k]>>)])

\* The forEach callback applied to the entries: res.setHeader(key, val) for
\* every header that is not skipped, and the copy to X-Set-Cookie.
RECURSIVE ForwardHeaders(_, _)
ForwardHeaders(entries, res) ==
    IF entries = <<>> THEN res
    ELSE LET e == Head(entries)
             skip == toLowerCase(e.key) \in
                        {"content-encoding", "content-length",
                         "transfer-encoding", "connection"}
             r1 == IF skip THEN res ELSE Assign(res, e.key, e.val)
             r2 == IF ~skip /\ toLowerCase(e.key) = "set-cookie"
                   THEN Assign(r1, "X-Set-Cookie", e.val) ELSE r1
         IN ForwardHeaders(Tail(entries), r2)

NoHeaders == [n \in {} |-> <<>>]

NetworkErrorText == "Network Error - Could not reach target"

\* A reply of the proxy, in the form proxyFetch reads it.
ProxyReply(n, e, d, h) ==
    [kind |-> "response", status |-> n, body |-> "json", error |-> e,
     details |-> d, headers |-> h]

\* response.headers.get(name) in the browser: case-insensitive, and
\* Set-Cookie is never visible to scripts.  <<>> stands for null.
Get(headers, name) ==
    LET keys == {k \in DOMAIN headers : toLowerCase(k) = toLowerCase(name)}
    IN IF toLowerCase(name) = "set-cookie" \/ keys = {} THEN <<>>
       ELSE headers[CHOOSE k \in keys : TRUE]

\* The headers.get of the response proxyFetch returns.
AccessorGet(response, name) ==
    IF response.xSetCookie # <<>> /\ toLowerCase(name) = "set-cookie"
    THEN response.xSetCookie
    ELSE Get(response.headers, name)

\* Names generated code may pass to headers.get.
QueryNames ==
    {"set-cookie", "Set-Cookie", "SET-COOKIE", "content-type", "Content-Type",
     "X-Set-Cookie", "X-Api-Key"}

\* A request as proxyFetch posts it.  History: failure (why fetch rejected:
\* "network" when the target could not be reached, "caller" when fetch
\* refused the request before any connection was attempted).
NewRequest(u, h) ==
    [stage |-> "posted", url |-> u, headers |-> h,
     sent |-> FALSE, safeHeaders |-> NoHeaders,
     upstream |-> [status |-> 0, cookies |-> <<>>],
     reply |-> ProxyReply(0, "", "", NoHeaders),
     settled |-> "none", message |-> "",
     response |-> [xSetCookie |-> <<>>, headers |-> NoHeaders],
     failure |-> "none"]

\* api.post('/proxy') up to `await fetch`: validation, then the headers of
\* the upstream request.
ProxyReceive ==
    /\ proxy.stage = "posted"
    /\ proxy' =
         IF proxy.url \in {Undefined, ""}
         THEN [proxy EXCEPT !.stage = "replied",
                            !.reply = ProxyReply(400, "Missing target URL", "", NoHeaders)]
         ELSE IF ~ParseURL(proxy.url).ok
         THEN [proxy EXCEPT !.stage = "replied",
                            !.reply = ProxyReply(400, "Invalid URL format", "", NoHeaders)]
         ELSE [proxy EXCEPT !.stage = "forwarded", !.sent = TRUE,
                            !.safeHeaders =
                                SafeHeaders(proxy.headers, ParseURL(proxy.url).origin)]
    /\ UNCHANGED <<engineVars, iframeVars, calls, app>>

\* fetch rejects (the target cannot be reached, or fetch cannot send to the
\* URL): the 502 reply.
ProxyNetworkError ==
    /\ proxy.stage = "forwarded"
    /\ proxy' = [proxy EXCEPT
                    !.stage = "replied",
                    !.failure = IF Fetchable(proxy.url) THEN "network"
                                ELSE "caller",
                    !.reply = ProxyReply(502, NetworkErrorText, "fetch failed",
                                         NoHeaders)]
    /\ UNCHANGED <<engineVars, iframeVars, calls, app>>

\* The target answers: its headers and status are forwarded.
ProxyForward(resp, mode) ==
    /\ proxy.stage = "forwarded" /\ Fetchable(proxy.url)
    /\ proxy' = [proxy EXCEPT
                    !.stage = "replied", !.upstream = resp,
                    !.reply = ProxyReply(resp.status, "", "",
                                 ForwardHeaders(HeaderEntries(resp, mode), NoHeaders))]
    /\ UNCHANGED <<engineVars, iframeVars, calls, app>>

\* proxyFetch after `await fetch('/api/proxy')`: it rejects for a reply that
\* is not ok, and installs the cookie accessor otherwise.
ClientReceive ==
    /\ proxy.stage = "replied"
    /\ LET r == proxyFetch(proxy.reply) IN
       proxy' = [proxy EXCEPT
                    !.stage = "done", !.settled = r.kind, !.message = r.message,
                    !.response =
                        IF r.kind = "resolved"
                        THEN [xSetCookie |-> Get(proxy.reply.headers, "X-Set-Cookie"),
                              headers |-> proxy.reply.headers]
                        ELSE proxy.response]
    /\ UNCHANGED <<engineVars, iframeVars, calls, app>>

\* Any request of generated code; the engines are idle.
InitProxy ==
    /\ widgets = {}
    /\ palette = {}
    /\ now = 0
    /\ w = [i \in Inst |-> NewWidget(SrcEmpty, "{}")]
    /\ obs = ObsOff
    /\ budget = 0
    /\ IframeIdle
    /\ calls = NoCalls
    /\ app = AppIdle
    /\ \E u \in TargetUrls, h \in CallerHeaders : proxy = NewRequest(u, h)

NextProxy ==
    \/ ProxyReceive
    \/ ProxyNetworkError
    \/ \E resp \in UpstreamResponses, mode \in {"combined", "separate"} :
          ProxyForward(resp, mode)
    \/ ClientReceive

SpecProxy == InitProxy /\ [][NextProxy]_vars

(***************************************************************************)
(* Claims.                                                                 *)
(***************************************************************************)

\* The boundary of instance i is Crashed.
Crashed(i) == BoundaryMounted(w[i]) /\ w[i].hasError
\* The guard raised RenderLoopError for instance 1 and the boundary holds it.
LoopRaised ==
    /\ w[1].loopAt >= 0
    /\ w[1].hasError
    /\ w[1].errorMsg = toString(JsError(LoopMessage))

\* C1: whatever value generated code throws during a guarded render (an
\* Error, a string, null, undefined), the exception stays inside the widget's
\* boundary: the dashboard never observes an uncaught exception.
C1_NoEscape == \A i \in Inst : ~w[i].escaped

\* C2: once the boundary has recorded a crash for the current source, it
\* stays Crashed with that message whenever it is mounted, until the source
\* changes: resizes (a width of 0 and then a positive one included), prop
\* updates and host re-renders do not return it to Healthy.
C2_CrashedUntilSourceChange ==
    \A i \in widgets :
        (w[i].latch # "" /\ BoundaryMounted(w[i]))
            => (w[i].hasError /\ w[i].errorMsg = w[i].latch)

\* C3: a change of WidgetSource while the boundary is Crashed resets the
\* CrashRecord to {false, ""} before the new source is rendered (the
\* generated component is not mounted yet, its render is queued), and a
\* recorded error is always one the current source produced.
C3_ResetOnSourceChange ==
    /\ [][\A i \in widgets :
            (Crashed(i) /\ w'[i].code # w[i].code /\ ~w'[i].escaped)
                => /\ ~w'[i].hasError /\ w'[i].errorMsg = ""
                   /\ ~w'[i].genMounted /\ w'[i].pending = "sync"]_vars
    /\ [](\A i \in widgets : w[i].hasError => w[i].errSrc = w[i].code)

\* C3 witness: the source of a Crashed boundary was replaced by a source that
\* throws as well; the old message is cleared and the new render is queued.
C3_Witness ==
    \E i \in widgets :
        /\ BoundaryMounted(w[i]) /\ w[i].pending = "sync"
        /\ w[i].cleared # "" /\ ~w[i].hasError
        /\ Invoke(w[i].code).throws

\* C4 (as claimed): whenever more than 200 invocations of the instance fall
\* into a span of at most 1000 ms, the guard has raised RenderLoopError.
C4_Any200InOneSecond == (obs.on /\ obs.count > 200) => LoopRaised

\* C4 (amended): counted from the start of a RenderWindow (the mount or the
\* invocation that reset the window), the invocation that makes more than 170
\* within 1000 ms raises RenderLoopError, so no window ever holds more than
\* 200 (not even 172) invocations.
C4_WindowRaisesAt171 ==
    (obs.on /\ obs.aligned)
        => /\ obs.count <= RenderLimit + 1
           /\ obs.count <= 200
           /\ (obs.count > RenderLimit => LoopRaised)

\* C4 witness: the 171st invocation of a window that began with a reset.
C4_Witness ==
    /\ obs.on /\ obs.aligned /\ obs.start > 0
    /\ obs.count = RenderLimit + 1 /\ LoopRaised

\* C5: the guard raises only when more than 170 invocations of the instance
\* fell into the second that ends with the raising invocation (the observer's
\* span is exactly that second: it starts at the first clock value not older
\* than 1000 ms); invocations at least 100 ms apart never raise.
C5_RaiseOnlyAbove170 ==
    /\ (/\ w[1].loopAt >= 0 /\ obs.on
        /\ obs.prev < w[1].loopAt - WindowMs
        /\ obs.start >= w[1].loopAt - WindowMs
        /\ obs.start <= w[1].loopAt) => obs.count > RenderLimit
    /\ (obs.tracking /\ obs.spaced) => w[1].loopAt < 0

\* C5 witness: the guard raised in a window that began with a reset, and the
\* observer's span is the second ending at the raise.
C5_Witness ==
    /\ LoopRaised /\ obs.on /\ obs.start > 0
    /\ obs.prev < w[1].loopAt - WindowMs
    /\ obs.start >= w[1].loopAt - WindowMs
    /\ obs.count > RenderLimit

\* The RenderWindow and the CrashRecord of an instance state.
RenderWindow(x) ==
    [mounted |-> x.genMounted, count |-> x.renderCount,
     windowStartedAt |-> x.lastRenderTime]
CrashRecord(x) ==
    [mounted |-> BoundaryMounted(x), hasError |-> x.hasError,
     message |-> x.errorMsg]

\* C6: a step of one widget instance (a guard step, a crash, a reset, a
\* source change) leaves the RenderWindow and the CrashRecord of every other
\* instance as they were.
C6_SiblingsUntouched ==
    [][\A i \in widgets : \A j \in widgets \ {i} :
          w'[i] # w[i]
              => /\ RenderWindow(w'[j]) = RenderWindow(w[j])
                 /\ CrashRecord(w'[j]) = CrashRecord(w[j])]_vars

\* C9: an exception raised while compiling, rendering or running the effects
\* of the current source leaves the boundary Crashed with that exception's
\* message recorded.
C9_EveryExceptionCrashes ==
    \A i \in widgets :
        (w[i].phase # "none" /\ w[i].pending # "sync")
            => (w[i].hasError /\ w[i].errorMsg = w[i].thrown.v)

\* C10: when the factory throws new Error(m), the boundary is Crashed and the
\* recorded message, which the fallback shows and the report actions pass on,
\* is exactly m.
C10_MessageIsExact ==
    \A i \in widgets :
        (w[i].phase = "render" /\ w[i].thrown.t = "Error" /\ Crashed(i))
            => w[i].errorMsg = w[i].thrown.v

\* The iframe engine is at rest: the parent is ready and no message is in
\* flight in either direction.
IframeQuiescent ==
    parent.isReady /\ toIframe = <<>> /\ toParent = <<>>

\* C7: in the iframe-hosted engine every invocation of the compiled factory
\* passes a render guard: once more than 170 invocations of it happened
\* (all within one second: the clock does not move in SpecIframe), the
\* iframe's boundary holds a RenderLoopError and the loop has stopped.
C7_IframeLoopStopped ==
    iframe.calls > RenderLimit =>
        /\ iframe.hasError
        /\ iframe.error = JsError(LoopMessage)
        /\ ~iframe.pending

\* C8: in the iframe-hosted engine, after a render crash was caught by the
\* iframe's boundary and reported to the parent, supplying a different
\* source is enough: once every message has been delivered, the iframe runs
\* the parent's current source and no longer shows the old source's crash.
C8_NewSourceSuffices ==
    (IframeQuiescent /\ parent.afterCrash) =>
        /\ iframe.code = parent.code
        /\ iframe.hasError => iframe.errSrc = parent.code

\* C11: while the source string is unchanged the compiled factory is reused:
\* a step that leaves an instance's source unchanged and its generated
\* component mounted, within the current RenderWindow, keeps that window
\* (same start, count not smaller), whatever props the host changed.
C11_CompiledOnlyOnSourceChange ==
    [][\A i \in widgets :
          (/\ w[i].genMounted /\ w'[i].genMounted
           /\ w'[i].code = w[i].code
           /\ now' - w[i].lastRenderTime <= WindowMs)
          => /\ w'[i].lastRenderTime = w[i].lastRenderTime
             /\ w'[i].renderCount >= w[i].renderCount]_vars

\* C12: a source whose construction raises a syntax error is never run and
\* never crashes the boundary: the mounted widget shows the Compilation
\* Error view, and every call its 'Fix Code' button made carries the raw
\* syntax-error message and the source the widget had at that moment.
C12_CompileErrorView ==
    /\ \A i \in widgets :
          (BoundaryMounted(w[i]) /\ w[i].pending # "sync"
              /\ w[i].code = SrcSyntax /\ ~w[i].escaped)
          => /\ View(w[i]) = "compileError"
             /\ ~w[i].hasError /\ ~w[i].genMounted /\ w[i].renderCount = 0
    /\ \A k \in 1..Len(calls.onReportError) :
          LET e == calls.onReportError[k] IN
          (e.view = "compileError" /\ e.args = 2)
          => e.message = SyntaxMessage /\ e.code = SrcSyntax /\ e.src = SrcSyntax

\* A 'Fix Code' click in the Compilation Error view has happened.
C12_Witness ==
    \E k \in 1..Len(calls.onReportError) :
        /\ calls.onReportError[k].view = "compileError"
        /\ calls.onReportError[k].args = 2
        /\ View(w[1]) = "compileError"

\* C13: an empty or whitespace-only source is inert in the iframe-hosted
\* engine too: once WidgetRunner has rendered with such a source, there is
\* no compiled factory, nothing was invoked, no compile error is shown and
\* the iframe's boundary is Healthy.
C13_BlankSourceIsInert ==
    (iframe.booted /\ iframe.runner /\ trim(iframe.code) = ""
        /\ iframe.memoCode = iframe.code)
    => /\ ~iframe.generated
       /\ iframe.calls = 0
       /\ iframe.compileError = ""
       /\ ~iframe.hasError

\* C14: every props.setCustomData(v) of generated code reaches the host as
\* exactly one onSetCustomData(v), in call order, and the value stored for
\* the widget after a step that made such calls is exactly the last v (the
\* old customData is replaced, not merged).
C14_SetCustomDataForwarded ==
    /\ [][Len(calls.setCustomData') > Len(calls.setCustomData)
            => w'[1].customData
                 = calls.setCustomData'[Len(calls.setCustomData')]]_vars
    /\ [](calls.onSetCustomData = calls.setCustomData)

\* setCustomData({b: 2}) was called while customData was {a: 1}.
C14_Witness ==
    /\ Len(calls.onSetCustomData) > 0
    /\ w[1].customData = "{b:2}"
    /\ w[1].latch = "" /\ View(w[1]) = "output"
    /\ \E k \in 1..Len(calls.setCustomData) : calls.setCustomData[k] = "{a:1}"

\* C15: the two buttons of the Crashed view are independent and exact:
\* 'Error Only' calls onReportError with the recorded message and no code,
\* 'Fix Code' calls it with the recorded message and the instance's current
\* source; a click makes exactly one call and leaves the CrashRecord and
\* the source of every instance unchanged.
C15_FallbackActionsExact ==
    /\ [][calls.onReportError' # calls.onReportError
            => /\ Len(calls.onReportError') = Len(calls.onReportError) + 1
               /\ \A i \in Inst : /\ CrashRecord(w'[i]) = CrashRecord(w[i])
                                  /\ w'[i].code = w[i].code]_vars
    /\ [](\A k \in 1..Len(calls.onReportError) :
            LET e == calls.onReportError[k] IN
            e.view = "crashed"
            => /\ e.message = toString(e.thrown)
               /\ e.args = 1 => e.code = ""
               /\ e.args = 2 => e.code = e.src)

\* Both buttons of the Crashed view have been clicked.
C15_Witness ==
    /\ Crashed(1)
    /\ \E j, k \in 1..Len(calls.onReportError) :
          /\ calls.onReportError[j].view = "crashed"
          /\ calls.onReportError[j].args = 1
          /\ calls.onReportError[k].view = "crashed"
          /\ calls.onReportError[k].args = 2

\* C16: when a proxyFetch promise of generated code settles, a rejection
\* the code handles leaves the CrashRecord unchanged, and a rejection the
\* code leaves unhandled makes the boundary Crashed with that exception.
C16_UncaughtRejectionCrashes ==
    [][\A i \in widgets :
          (calls.settled' # calls.settled /\ calls.settled'.kind = "rejected"
              /\ View(w[i]) = "output")
          => IF calls.settled'.caught
             THEN CrashRecord(w'[i]) = CrashRecord(w[i])
             ELSE w'[i].hasError]_vars

\* C17: cookie round trip: every Set-Cookie value the target sent is what
\* headers.get('set-cookie') of the response handed to generated code
\* returns, for any letter case of the name, and for every other name the
\* accessor returns what the underlying headers return.
C17_CookieRoundTrip ==
    (proxy.stage = "done" /\ proxy.settled = "resolved")
    => \A name \in QueryNames :
          IF toLowerCase(name) = "set-cookie"
          THEN AccessorGet(proxy.response, name) = proxy.upstream.cookies
          ELSE AccessorGet(proxy.response, name)
                 = Get(proxy.response.headers, name)

\* C18: the upstream request of every well-formed target URL carries an
\* Origin equal to the URL's origin, a Referer derived from it and a
\* non-empty User-Agent when the caller supplied none; a value the caller
\* supplied under any spelling of these names is the only value forwarded
\* under that name.
C18_InjectedHeaders ==
    proxy.sent
    => \A name \in {"origin", "referer", "user-agent"} :
          LET supplied == Carried(proxy.headers, name)
              origin == ParseURL(proxy.url).origin
          IN IF supplied = {}
             THEN Carried(proxy.safeHeaders, name)
                    = {CASE name = "origin" -> origin
                         [] name = "referer" -> origin \o "/"
                         [] OTHER -> DefaultUserAgent}
             ELSE /\ Carried(proxy.safeHeaders, name) = supplied
                  /\ \A k \in DOMAIN proxy.safeHeaders :
                        toLowerCase(k) = name => k \in DOMAIN proxy.headers

\* C19: whatever letter case the caller used, the upstream request carries
\* none of the caller's host, content-length or connection headers, and
\* every other caller header is forwarded unchanged.
C19_RestrictedHeadersStripped ==
    proxy.sent
    => /\ \A k \in DOMAIN proxy.safeHeaders :
             toLowerCase(k) \notin {"host", "content-length", "connection"}
       /\ \A k \in DOMAIN proxy.headers :
             toLowerCase(k) \notin {"host", "content-length", "connection"}
             => k \in DOMAIN proxy.safeHeaders
                /\ proxy.safeHeaders[k] = proxy.headers[k]

\* C20: a request whose url is missing or does not parse is answered with
\* status 400 and an error body, without any upstream request, and is never
\* answered with 502; a request whose url parses is never answered 400 by
\* the proxy's validation.
C20_ValidationIs400 ==
    proxy.stage \in {"replied", "done"}
    => IF proxy.url \notin {UrlExampleTest, UrlNas, UrlMailto}
       THEN /\ proxy.reply.status = 400 /\ proxy.reply.error # ""
            /\ ~proxy.sent /\ proxy.safeHeaders = NoHeaders
       ELSE /\ proxy.sent
            /\ proxy.reply.status = 400 => proxy.upstream.status = 400

\* A text that is not a URL was rejected and the client saw the rejection.
C20_Witness ==
    /\ proxy.stage = "done" /\ proxy.url = "not a url"
    /\ proxy.reply.status = 400 /\ proxy.settled = "rejected"
    /\ proxy.message = "Invalid URL format"

\* C21: the proxy replies with status 502 and the body {error, details}
\* exactly when the upstream request failed at the network level: never for
\* a target that answered with a status of its own, and never for a request
\* that fetch refused before it reached the network.
C21_NetworkFailureIs502 ==
    proxy.stage \in {"replied", "done"}
    => ((proxy.reply.status = 502 /\ proxy.reply.error = NetworkErrorText)
           <=> proxy.failure = "network")

\* C22: within one instance, after WidgetSource changes from s1 to s2 no
\* render invokes a factory compiled from s1 (a mounted generated component,
\* and a crash held by the boundary, always come from a factory compiled
\* from the current source, and the memoized compile is the current
\* source's); an invocation running s2 uses the factory the compile of s2
\* memoized; and when the boundary was Crashed at the change, the step that
\* changes the source resets the boundary and invokes nothing, so the reset
\* precedes the first invocation running s2.
C22_SourceChangeOrdering ==
    /\ [][\A i \in widgets :
            (Crashed(i) /\ w'[i].code # w[i].code)
                => /\ w'[i].ran = w[i].ran /\ ~w'[i].genMounted
                   /\ w'[i].renderCount = 0
                   /\ ~w'[i].hasError /\ w'[i].pending = "sync"]_vars
    /\ [](\A i \in widgets :
            /\ w[i].genMounted
                    => (w[i].ran = w[i].code /\ w[i].memoCode = w[i].code)
            /\ (w[i].hasError /\ w[i].phase \in {"guard", "render", "effect"})
                    => w[i].ran = w[i].code
            /\ w[i].memoCode \in {NoMemo, w[i].code})
\* The source that crashed was replaced by one that compiles to a factory:
\* the boundary has been reset, the last invocation still is the old
\* source's, and the render that will invoke the new source is queued.
C22_Witness ==
    \E i \in widgets :
        /\ BoundaryMounted(w[i]) /\ w[i].pending = "sync"
        /\ w[i].cleared # "" /\ ~w[i].hasError /\ ~w[i].genMounted
        /\ w[i].ran \notin {NoMemo, w[i].code}
        /\ Compile(w[i].code).kind = "factory"

\* C23: once the guard has raised RenderLoopError, or the factory has thrown
\* during a render, neither the guard nor the factory of that instance is
\* invoked again until WidgetSource has changed: no source is retried after
\* it has thrown.
C23_NoRetryWithoutSourceChange == \A i \in widgets : ~w[i].retried

\* C24: every guard step of a mounted instance sets its RenderWindow to
\* {count: 1, windowStartedAt: now} exactly when now - windowStartedAt > 1000,
\* and otherwise adds one to count and keeps windowStartedAt; a step that
\* returns normally leaves count <= 170 (the step that would make it 171
\* raises instead), and count >= 1 after every guard step.
C24_GuardStepExact ==
    /\ [][(/\ w[1].genMounted
            /\ \/ w'[1].renderCount # w[1].renderCount
               \/ w'[1].lastRenderTime # w[1].lastRenderTime
               \/ w'[1].hasError # w[1].hasError)
           => IF now - w[1].lastRenderTime > WindowMs
              THEN /\ w'[1].genMounted /\ ~w'[1].hasError
                   /\ RenderWindow(w'[1]).count = 1
                   /\ RenderWindow(w'[1]).windowStartedAt = now
              ELSE IF w'[1].genMounted
              THEN /\ RenderWindow(w'[1]).count = RenderWindow(w[1]).count + 1
                   /\ RenderWindow(w'[1]).windowStartedAt
                          = RenderWindow(w[1]).windowStartedAt
                   /\ RenderWindow(w'[1]).count <= 170
              ELSE /\ RenderWindow(w[1]).count + 1 > 170
                   /\ w'[1].hasError /\ w'[1].loopAt = now]_vars
    /\ [](w[1].genMounted
            => (RenderWindow(w[1]).count >= 1 /\ RenderWindow(w[1]).count <= 170))
\* C24 witness: a window that was restarted by a guard step more than 1000 ms
\* after the mount has been counted up to 170 without a raise.
C24_Witness ==
    /\ w[1].genMounted /\ RenderWindow(w[1]).windowStartedAt > WindowMs
    /\ RenderWindow(w[1]).count = 170 /\ ~w[1].hasError

\* C28: whenever the parent of the iframe-hosted engine holds a crashError,
\* it is the error the iframe reports for the parent's current code prop (the
\* message of the Error the source throws, or its compile error); so the Fix
\* button never sends an error of a previous source with the new code.
C28_CrashErrorOfCurrentCode ==
    parent.crashError # ""
        => \/ /\ Invoke(parent.code).throws
              /\ parent.crashError = message(Invoke(parent.code).value)
           \/ /\ Invoke(parent.code).effect = "throw"
              /\ parent.crashError = message(Invoke(parent.code).effectValue)
           \/ /\ IframeCompile(parent.code).kind = "compileError"
              /\ parent.crashError = IframeCompile(parent.code).message

\* C25: with several iframe widgets mounted, a widget's handleMessage acts
\* only on messages of its own iframe: a widget's customData, crashError and
\* isReady change only in the step that takes the matching message off its
\* own iframe's queue, and no INIT, FETCH_RESULT or running proxy request of
\* a widget answers a message that another widget's iframe posted.
C25_OwnIframeOnly ==
    /\ [][\A i \in Frame :
            LET m == Head(frames.up[i]) IN
            /\ frames'.customData[i] # frames.customData[i]
                 => /\ frames.up[i] # <<>> /\ frames'.up[i] = Tail(frames.up[i])
                    /\ m.type = "SET_CUSTOM_DATA"
                    /\ frames'.customData[i] = m.data
            /\ frames'.crashError[i] # frames.crashError[i]
                 => /\ frames.up[i] # <<>> /\ frames'.up[i] = Tail(frames.up[i])
                    /\ m.type = "REPORT_ERROR"
                    /\ frames'.crashError[i] = m.error
            /\ frames'.isReady[i] # frames.isReady[i]
                 => /\ frames.up[i] # <<>> /\ frames'.up[i] = Tail(frames.up[i])
                    /\ m.type = "READY"]_vars
    /\ [](/\ \A r \in frames.flight : r.by = r.src
          /\ \A i \in Frame : \A n \in 1..Len(frames.down[i]) :
                /\ frames.down[i][n].by = i
                /\ frames.down[i][n].src = i)
\* C25 witness: the parent has dispatched a SET_CUSTOM_DATA of iframe 2 while
\* widget 1 waits for the result of its own proxy request.
C25_Witness ==
    /\ frames.customData[2] = "{a:1}" /\ frames.customData[1] = "{}"
    /\ \E n \in 1..Len(frames.down[1]) : frames.down[1][n].type = "FETCH_RESULT"
    /\ frames.isReady[1] /\ frames.isReady[2]

\* C26: every promise of proxyFetch is settled at most once (resolve or
\* reject is called at most once for it), and only by its own abort listener
\* or by the FETCH_RESULT that answers its own call; a settled promise has no
\* pendingFetches entry, so a FETCH_RESULT arriving later touches no promise.
C26_SettledOnceByOwnResult ==
    \A i \in Frame : \A k \in Call :
        LET p == frames.promise[i][k] IN
        /\ p.tries <= 1
        /\ p.by.kind # "none" => (p.by.frame = i /\ p.by.call = k)
        /\ p.state \in {"resolved", "rejected"}
              => \A x \in FetchIds : frames.pendingFetches[i][x] # k

\* C27: when nothing is in flight any more (every message was dispatched
\* and every performProxyFetch has returned), no promise of a call that was
\* not aborted is still pending, whatever the outcome of the proxy request
\* was; stated for the runs in which every call drew an id of its own.
C27_EveryFetchSettles ==
    (/\ ~frames.reused
     /\ frames.flight = {}
     /\ \A i \in Frame : frames.up[i] = <<>> /\ frames.down[i] = <<>>)
        => \A i \in Frame : \A k \in Call :
              frames.promise[i][k].signal \in {"none", "live"}
                  => frames.promise[i][k].state # "pending"

\* C29: a setCustomData write changes only the customData of the widget's
\* stored config: its customCode and label stay what the store held when
\* the write was applied, and the other widgets are untouched.
C29_WriteChangesOnlyCustomData ==
    [][(app.stage = "run" /\ app'.writes # app.writes)
        => /\ DOMAIN app'.data = DOMAIN app.data
           /\ \A j \in DOMAIN app.data :
                IF j = app'.wrote
                THEN /\ app'.data[j].config.customCode = app.data[j].config.customCode
                     /\ app'.data[j].config.label = app.data[j].config.label
                ELSE app'.data[j] = app.data[j]]_vars

\* C30: no POST /api/config is issued before the initial GET has finished;
\* and after a failed initial load no POST is made over a configuration the
\* server has stored unless the dashboard was changed in this session.
C30_NoSaveOfDefaults ==
    /\ (app.stage = "run" /\ app.load = "pending")
          => (app.posts = <<>> /\ ~app.timer.set)
    /\ app.stage = "run"
          => \A k \in 1..Len(app.posts) :
                /\ app.posts[k].load # "pending"
                /\ ~(/\ app.posts[k].load = "failed"
                     /\ ~app.posts[k].changed
                     /\ app.posts[k].over # DefaultWidgets)
====
